---- MODULE Spec2Model ----
(***************************************************************************)
(* kakao-rag-bot: a model of the chunker, the agent router, the /kakao     *)
(* webhook handlers and the /upload handlers found in api/router.js and    *)
(* its variants.                                                           *)
(*                                                                         *)
(* The repository keeps several versions of the same handler side by side. *)
(* The model names them                                                    *)
(*   "express1"  src/api/router.js:43-271      (module-level clients,      *)
(*               fire-and-forget saveQAMemory)                             *)
(*   "express2"  src/api/router.js:273-476 and src/unnamed/part_001:1-203  *)
(*               (lazy clients, awaited qa_memory insert)                  *)
(*   "pure"      src/unnamed/part_000           (plain handler, 4.5 s      *)
(*               guard on the chat call, Q&A written to documents)         *)
(* The two stub handlers (src/api/router.js:1-41, a diagnostic handler     *)
(* without secret check, and src/unnamed/part_001:205-299, an echo handler *)
(* with the plain handler's entry logic) make no external call and are not *)
(* modelled.                                                               *)
(*                                                                         *)
(* The versions with module-level clients construct them when the module  *)
(* is loaded, before any request is served; a missing environment variable *)
(* is modelled for the versions that create the clients inside the handler.*)
(*                                                                         *)
(* The embedding, match_documents and chat-completion services are         *)
(* external: a call may resolve, reject or stay pending, also after        *)
(* controller.abort() has run.  The rows match_documents returns are the   *)
(* best match_count rows of the documents table with the requested source. *)
(*                                                                         *)
(* Korean syllables are written in Revised Romanization, one token per     *)
(* syllable, because the module is plain ASCII.                            *)
(***************************************************************************)
EXTENDS Integers, Sequences, FiniteSets, TLC

VARIABLES
    \* ---- chunkText(text, chunkSize, overlap) ----
    text,        \* the input string, a sequence of characters
    chunkSize,   \* parameter chunkSize / size
    overlap,     \* parameter overlap
    i,           \* loop variable i
    chunks,      \* the array chunks / out (first MaxChunks pushes recorded)
    cpc,         \* position in chunkText: "idle", "loop", "body", "done"
    \* ---- pickAgent(userText) as a stand-alone call ----
    rText,       \* argument of the call
    rVariant,    \* which version of pickAgent is called
    rMode,       \* its return value, "none" before the call
    rpc,         \* "idle", "call", "done"
    \* ---- one request to /kakao ----
    variant,     \* the version of the handler that serves the request
    KAKAO_SKILL_SECRET,  \* process.env.KAKAO_SKILL_SECRET, "none" if unset
    envMissing,  \* the environment variable the deployment lacks, "none"
                 \* if OPENAI_API_KEY and the Supabase settings are set
    req,         \* the request: method, fast, header, qsecret, body,
                 \* utterance
    pc,          \* position of the handler
    userText,    \* const userText
    mode,        \* const mode = pickAgent(userText)
    agenda,      \* agents still to run, the first one running
    srcIdx,      \* index in the running agent's pool of the next call
    acc,         \* results the running agent has accumulated
    bundles,     \* bundles built so far, then the bundles given to the LLM
    calls,       \* log of the calls made to the external services
    timer,       \* the 4.5 s timer: "none", "armed", "fired", "cleared"
    deadlinePassed, \* 4.5 s went by while the chat call was pending
    finalText,   \* const finalText = await answerWithLLM(...)
    res,         \* the response sent, NoRes before
    ppc,         \* position of the Q&A persistence: "none", "embed",
                 \* "insert", "stored", "failed"
    documents,   \* the documents table: number of rows per source
    qa_memory,   \* the qa_memory table: number of rows
    faults,      \* searches that have failed during the request
    \* ---- one request to /upload ----
    ADMIN_PASSWORD,  \* process.env.ADMIN_PASSWORD, "none" if unset
    upload,      \* the request: pw, source, file
    upc,         \* position of the upload handler
    embeddings,  \* const embeddings = await embed(chunks)
    rows,        \* const rows = chunks.map(...)
    ucalls,      \* log of the calls made for the upload
    ures         \* the response sent, NoUploadRes before

chunkVars == <<text, chunkSize, overlap, i, chunks, cpc>>
routeVars == <<rText, rVariant, rMode, rpc>>

kakaoVars == <<variant, KAKAO_SKILL_SECRET, envMissing, req, pc, userText, mode, agenda,
               srcIdx, acc, bundles, calls, timer, deadlinePassed, finalText,
               res, ppc, documents, qa_memory, faults>>

uploadVars == <<ADMIN_PASSWORD, upload, upc, embeddings, rows, ucalls, ures>>

vars == <<chunkVars, routeVars, kakaoVars, uploadVars>>

Min(a, b) == IF a < b THEN a ELSE b

(***************************************************************************)
(* Bounds                                                                  *)
(***************************************************************************)
MaxTextLen == 5      \* longest text chunked exhaustively
MaxSize    == 3      \* largest chunkSize chunked exhaustively
MaxChunks  == MaxTextLen + 2   \* pushes recorded in chunks
MaxPieces  == 2      \* pieces concatenated into a pickAgent input
MaxSearchFaults == 1 \* searches that may fail during one request

(***************************************************************************)
(* chunkText                                                               *)
(***************************************************************************)
\* A text of n characters; character k is written k so that a slice shows
\* which positions of the text it holds.
TextOfLen(n) == [k \in 1..n |-> k]

\* String.prototype.slice(i, end) for 0 <= i <= end <= length (0-based,
\* end exclusive).
Slice(t, from, to) == SubSeq(t, from + 1, to)

\* Defaults of the signature: (1200, 200) in the Express versions,
\* (1100, 150) in the plain handler.
DefaultParams == { <<1200, 200>>, <<1100, 150>> }
DefaultLens   == { 1, 1100, 1300, 2500 }

SmallCases ==
    { <<n, s, o>> \in (0..MaxTextLen) \X (1..MaxSize) \X (0..MaxSize) : o < s }
DefaultCases ==
    { <<n, p[1], p[2]>> : n \in DefaultLens, p \in DefaultParams }

\* the statement after the push: i = end - overlap; if (i < 0) i = 0;
NextStartSkips(end, ov) == end + 1
NextStart(end, ov) ==
    LET j == end - ov IN IF j < 0 THEN 0 ELSE j

\* let i = 0; const chunks = [];
ChunkEnter ==
    /\ cpc = "idle"
    /\ i' = 0
    /\ chunks' = << >>
    /\ cpc' = "loop"
    /\ UNCHANGED <<text, chunkSize, overlap>>
    /\ UNCHANGED <<routeVars, kakaoVars, uploadVars>>

\* the loop test while (i < text.length) succeeds
ChunkTest ==
    /\ cpc = "loop"
    /\ i < Len(text)
    /\ cpc' = "body"
    /\ UNCHANGED <<text, chunkSize, overlap, i, chunks>>
    /\ UNCHANGED <<routeVars, kakaoVars, uploadVars>>

\* the loop body: end, push, next start.  chunks records the first
\* MaxChunks pushes; later pushes repeat the loop without being recorded.
ChunkStep ==
    /\ cpc = "body"
    /\ LET end == Min(i + chunkSize, Len(text)) IN
         /\ chunks' = IF Len(chunks) < MaxChunks
                      THEN Append(chunks, Slice(text, i, end))
                      ELSE chunks
         /\ i' = NextStart(end, overlap)
    /\ cpc' = "loop"
    /\ UNCHANGED <<text, chunkSize, overlap>>
    /\ UNCHANGED <<routeVars, kakaoVars, uploadVars>>

\* the loop test fails: return chunks;
ChunkReturn ==
    /\ cpc = "loop"
    /\ ~(i < Len(text))
    /\ cpc' = "done"
    /\ UNCHANGED <<text, chunkSize, overlap, i, chunks>>
    /\ UNCHANGED <<routeVars, kakaoVars, uploadVars>>

ChunkNext == ChunkEnter \/ ChunkTest \/ ChunkStep \/ ChunkReturn

ChunkInitCase(c) ==
    /\ text = TextOfLen(c[1])
    /\ chunkSize = c[2]
    /\ overlap = c[3]
    /\ i = 0
    /\ chunks = << >>
    /\ cpc = "idle"

(***************************************************************************)
(* pickAgent                                                               *)
(***************************************************************************)
Variants == {"express1", "express2", "pure"}

\* String.prototype.toLowerCase on one character: only cased (Latin)
\* characters change; Hangul syllables have no case.
LowerChar(c) ==
    CASE c = "A" -> "a"
      [] c = "B" -> "b"
      [] OTHER   -> c
ToLowerCase(t) == [k \in 1..Len(t) |-> LowerChar(t[k])]

\* String.prototype.includes(k): k occurs in t at some offset.
Includes(t, k) ==
    \E off \in 0..(Len(t) - Len(k)) : SubSeq(t, off + 1, off + Len(k)) = k

\* Array.prototype.some over a keyword list
Some(kws, t) == \E n \in 1..Len(kws) : Includes(t, kws[n])

companyKeywordsExpress ==
    << <<"chwi","eop","gyu","chik">>, <<"dan","che","hyeop","yak">>,
       <<"im","geum","hyeop","yak">>, <<"yeon","cha">>, <<"hyu","ga">>,
       <<"teuk","byeol","hyu","ga">>, <<"su","dang">>, <<"gyo","dae">>,
       <<"seung","jin">>, <<"baen","deu">> >>
lawKeywordsExpress ==
    << <<"geun","ro","gi","jun","beop">>,
       <<"yeon","cha","yu","geup","hyu","ga">>, <<"hae","go">>,
       <<"seo","myeon","tong","ji">>, <<"go","yong","bo","heom">>,
       <<"san","jae">>, <<"yu","yeon","geun","mu">>,
       <<"chul","san","hyu","ga">>, <<"yuk","a","hyu","jik">> >>
companyKeywordsPure ==
    << <<"chwi","eop","gyu","chik">>, <<"dan","che","hyeop","yak">>,
       <<"im","geum","hyeop","yak">>, <<"yeon","cha">>, <<"hyu","ga">>,
       <<"teuk","byeol","hyu","ga">>, <<"su","dang">>, <<"gyo","dae">>,
       <<"seung","jin">>, <<"geun","tae">>, <<"po","sang">>,
       <<"jing","gye">> >>
lawKeywordsPure ==
    << <<"geun","ro","gi","jun","beop">>,
       <<"yeon","cha","yu","geup","hyu","ga">>, <<"hae","go">>,
       <<"seo","myeon","tong","ji">>, <<"go","yong","bo","heom">>,
       <<"san","jae">>, <<"yu","yeon","geun","mu">>,
       <<"chul","san","hyu","ga">>, <<"yuk","a","hyu","jik">>,
       <<"pyeong","deung">>, <<"seong","hui","rong">> >>

companyKeywords(v) ==
    IF v = "pure" THEN companyKeywordsPure ELSE companyKeywordsExpress
lawKeywords(v) ==
    IF v = "pure" THEN lawKeywordsPure ELSE lawKeywordsExpress

pickAgentLawFirst(v, utterance) ==
    LET t == ToLowerCase(utterance) IN
      IF Some(lawKeywords(v), t) THEN "law"
      ELSE IF Some(companyKeywords(v), t) THEN "company"
      ELSE "mix"
pickAgent(v, utterance) ==
    LET t == ToLowerCase(utterance) IN
      IF Some(companyKeywords(v), t) THEN "company"
      ELSE IF Some(lawKeywords(v), t) THEN "law"
      ELSE "mix"

Range(s) == { s[n] : n \in 1..Len(s) }

\* Inputs of pickAgent: up to MaxPieces pieces, each a keyword of either
\* version, a fragment of one, or filler (with upper-case Latin letters).
Fillers ==
    { <<"x">>, <<"A">>, <<"B">>, <<"hyu">>, <<"ga">>, <<"go">>, <<"hae">>,
      <<"yeon">>, <<"cha">> }
Pieces ==
    Range(companyKeywordsExpress) \cup Range(lawKeywordsExpress) \cup
    Range(companyKeywordsPure) \cup Range(lawKeywordsPure) \cup Fillers

RECURSIVE TextsOf(_)
TextsOf(n) ==
    IF n = 0 THEN { << >> }
    ELSE LET shorter == TextsOf(n - 1) IN
           shorter \cup { s \o p : s \in shorter, p \in Pieces }
RouteTexts == TextsOf(MaxPieces)

RouteCall ==
    /\ rpc = "idle"
    /\ rpc' = "call"
    /\ UNCHANGED <<rText, rVariant, rMode>>
    /\ UNCHANGED <<chunkVars, kakaoVars, uploadVars>>

RouteReturn ==
    /\ rpc = "call"
    /\ rMode' = pickAgent(rVariant, rText)
    /\ rpc' = "done"
    /\ UNCHANGED <<rText, rVariant>>
    /\ UNCHANGED <<chunkVars, kakaoVars, uploadVars>>

RouteNext == RouteCall \/ RouteReturn

(***************************************************************************)
(* The /kakao webhook                                                      *)
(***************************************************************************)
NoText == [id |-> "none", len |-> 0]
NoRes  == [status |-> 0, kind |-> "none", text |-> NoText, quickReplies |-> 0]

\* kakaoText(text, quickReplies) sent with res.status(s).json(...)
kakaoText(s, t, quick) ==
    [status |-> s, kind |-> "kakao", text |-> t, quickReplies |-> quick]
\* res.status(403).json({ error: "forbidden" })
ForbiddenRes ==
    [status |-> 403, kind |-> "forbidden", text |-> NoText, quickReplies |-> 0]

\* res.status(500).json({ error: "router-failed", message: String(e) })
RouterFailedRes ==
    [status |-> 500, kind |-> "router-failed", text |-> NoText,
     quickReplies |-> 0]
\* the answer of the express.json() middleware to a body it cannot parse
BadRequestRes ==
    [status |-> 400, kind |-> "bad-request", text |-> NoText,
     quickReplies |-> 0]

PongText     == [id |-> "pong(fast-debug)", len |-> 16]
GetText      == [id |-> "webhook OK (GET)", len |-> 34]
GenFailText  == [id |-> "answer generation failed", len |-> 8]
LLMTimeoutText == [id |-> "busy, retry later (LLM timeout)", len |-> 34]
ErrorText    == [id |-> "temporary error, retry later", len |-> 30]
GenText(n)   == [id |-> "generated", len |-> n]

\* String.prototype.slice(0, n) on a reply text
SliceText(t, n) == [id |-> t.id, len |-> Min(t.len, n)]

\* lengths (after trim) of the content returned by the chat call; 0 stands
\* for a missing or blank content
GenLens == { 0, 40, 2600 }

\* utterances of the webhook requests: empty, company, law, and one that
\* is a law keyword only in the plain handler's list
KakaoTexts ==
    { << >>, <<"yeon","cha">>, <<"hae","go">>, <<"pyeong","deung">> }

SecretValues == { "none", "good", "bad" }

\* the body of a request: JSON whose userRequest.utterance is a string (or
\* absent), text that is not JSON, or JSON whose userRequest.utterance is
\* a truthy value that is not a string (a number, an object)
BodyKinds == { "json", "malformed", "nonstring" }

\* Requests to /kakao.  The Express route is app.post("/kakao"); the plain
\* handler also answers GET.
Requests(v) ==
    [ method    : IF v = "pure" THEN {"GET", "POST"} ELSE {"POST"},
      fast      : BOOLEAN,
      header    : SecretValues,
      qsecret   : SecretValues,
      body      : BodyKinds,
      utterance : KakaoTexts ]

\* getOpenAI() / getSupabase(): throw when the variable is missing.  Only
\* the versions with lazily created clients call them in the handler.
EnvValues == { "none", "OPENAI_API_KEY", "SUPABASE_URL" }
LazyClientsThrow(v, missing) == v = "express2" /\ missing # "none"

\* body?.userRequest?.utterance || "" : the plain handler turns a body
\* that does not parse into {}
Utterance(r) == IF r.body = "json" THEN r.utterance ELSE << >>

\* pickAgent calls toLowerCase() on its argument: a TypeError unless the
\* argument is a string
PickAgentThrows(r) == r.body = "nonstring"

\* const token = req.headers["x-skill-secret"] || q.get("secret");
\* (Express: const token = req.headers["x-skill-secret"];)
Token(v, r) ==
    IF v = "pure"
    THEN IF r.header # "none" THEN r.header ELSE r.qsecret
    ELSE r.header

\* if (KAKAO_SKILL_SECRET) { if (token !== KAKAO_SKILL_SECRET) -> 403 }
SecretCheckSkipped(v, secret, r) == FALSE
SecretRejects(v, secret, r) ==
    secret # "none" /\ Token(v, r) # secret

\* q.has("fast") || q.get("fast") === "1", tested only by the plain handler
FastBypass(v, r) == v = "pure" /\ r.fast

\* ---- sources ----
CompanyRules == "hoesa-chwieop-gyuchik"
Collective   == "danche-hyeopyak"
WageAgreement == "imgeum-hyeopyakseo"
NullFilter   == "null"

lawPoolExpress ==
    << "geunro-gijunbeop", "goyong-boheombeop", "sanjae-boheombeop",
       "yuyeon-geunmu-maenyueol", "nomu-gwanri-gaideubuk",
       "jirui-hoesijip", "yangseong-pyeongdeung-gibonbeop" >>
lawPoolPure ==
    << "geunro-gijunbeop", "goyong-boheombeop",
       "saneop-jaehae-bosang-boheombeop",
       "yuyeon-geunmu-maenyueol", "nomu-gwanri-gaideubuk",
       "jirui-hoesijip", "yangseong-pyeongdeung-gibonbeop" >>

DefaultTopK == 5

\* the searchDocs calls an agent may make, in order: <<source, topK>>
Pool(v, agent) ==
    CASE agent = "company" /\ v # "pure" ->
           << <<CompanyRules, DefaultTopK>>, <<Collective, DefaultTopK>>,
              <<WageAgreement, DefaultTopK>> >>
      [] agent = "company" /\ v = "pure" ->
           << <<CompanyRules, 4>>, <<Collective, 3>>, <<WageAgreement, 3>> >>
      [] agent = "law" /\ v # "pure" ->
           [n \in 1..Len(lawPoolExpress) |-> <<lawPoolExpress[n], DefaultTopK>>]
      [] agent = "law" /\ v = "pure" ->
           [n \in 1..Len(lawPoolPure) |-> <<lawPoolPure[n], 2>>]
      [] agent = "mixCompany" -> << <<CompanyRules, 3>> >>
      [] agent = "mixLaw"     -> << <<NullFilter, 3>> >>

\* agentCompany: hits.length < 3 ? ... : [], hits.length + more1.length < 3
\* ? ... : []  (the accumulated count decides whether the next source is
\* queried); the plain handler queries all three unconditionally.
CompanyWidens(v, soFar) == v = "pure" \/ Len(soFar) < 3

\* agentLaw: if (contexts.length > 6) break;
LawNeverBreaks(ctx) == FALSE
LawBreaks(ctx) == Len(ctx) > 6

\* contexts.slice(0, 6)
LawSlice(ctx) == SubSeq(ctx, 1, Min(6, Len(ctx)))

\* is the n-th call of the agent's pool made, given the results so far?
WantNext(v, agent, n, soFar) ==
    /\ n <= Len(Pool(v, agent))
    /\ \/ n = 1
       \/ agent = "company" /\ CompanyWidens(v, soFar)
       \/ agent = "law" /\ ~LawBreaks(soFar)

\* the agents run for a request, in order
Agenda(v, m) ==
    IF v # "pure" THEN << "company", "law" >>
    ELSE CASE m = "company" -> << "company" >>
           [] m = "law"     -> << "law" >>
           [] OTHER         -> << "mixCompany", "mixLaw" >>

BundleName(agent) ==
    IF agent \in {"company", "mixCompany"} THEN "hoesa-naegyu"
    ELSE "beomnyeong-gijun"

BundleOf(agent, soFar) ==
    [ name |-> BundleName(agent),
      contexts |-> IF agent = "law" THEN LawSlice(soFar) ELSE soFar ]

\* Express: bundles = mode === "company" ? [company] : mode === "law" ?
\* [law] : [company, law]; the plain handler builds only what it uses.
SelectBundles(v, m, built) ==
    IF v = "pure" THEN built
    ELSE CASE m = "company" -> << built[1] >>
           [] m = "law"     -> << built[2] >>
           [] OTHER         -> built

LawSources == Range(lawPoolExpress) \cup Range(lawPoolPure)
\* const { pw, source = "gi-ta", title = "mun-seo" } = req.body
DefaultSource == "gi-ta"
DocSources ==
    {CompanyRules, Collective, WageAgreement, "qa_memory", DefaultSource}
      \cup LawSources

RECURSIVE SumOver(_, _)
SumOver(f, S) ==
    IF S = {} THEN 0
    ELSE LET x == CHOOSE y \in S : TRUE IN f[x] + SumOver(f, S \ {x})

\* match_documents(query_embedding, match_count, filter_source): the number
\* of rows returned, the match_count best of the rows with that source (of
\* all rows when filter_source is null)
Matching(docs, src, topK) ==
    IF src = NullFilter THEN Min(topK, SumOver(docs, DocSources))
    ELSE Min(topK, docs[src])

\* rows returned by match_documents for one source: n records, best first
Hits(src, n) == [j \in 1..n |-> [source |-> src, rank |-> j]]

\* searchDocs(...).catch(() => []): what the caller receives
CatchLeaksError(src, ok, n) ==
    IF ok THEN Hits(src, n) ELSE << [source |-> "error", rank |-> 0] >>
Caught(src, ok, n) == IF ok THEN Hits(src, n) ELSE << >>

\* one entry of the log of calls to the external services
Call(op, src, topK, st, n, row) ==
    [op |-> op, src |-> src, topK |-> topK, st |-> st, n |-> n, row |-> row]

SettleLast(log, st, n) ==
    [log EXCEPT ![Len(log)] = [@ EXCEPT !.st = st, !.n = n]]

retrVars == <<agenda, srcIdx, acc, bundles>>
genVars  == <<timer, deadlinePassed, finalText>>
reqVars  == <<variant, KAKAO_SKILL_SECRET, envMissing, req>>
storeVars == <<documents, qa_memory>>

\* ---- receive, verify ----
\* plain handler: fast bypass, secret check, method dispatch
KakaoEntryPure ==
    /\ pc = "recv"
    /\ variant = "pure"
    /\ IF FastBypass(variant, req)
       THEN res' = kakaoText(200, PongText, 0) /\ pc' = "done"
       ELSE IF SecretRejects(variant, KAKAO_SKILL_SECRET, req)
       THEN res' = ForbiddenRes /\ pc' = "done"
       ELSE IF req.method = "GET"
       THEN res' = kakaoText(200, GetText, 0) /\ pc' = "done"
       ELSE res' = res /\ pc' = "classify"
    /\ UNCHANGED <<reqVars, userText, mode, retrVars, calls, genVars, ppc>>
    /\ UNCHANGED <<storeVars, faults, chunkVars, routeVars, uploadVars>>

\* Express: app.use(express.json()) parses the body before the route and
\* answers a body it cannot parse itself; app.post("/kakao") checks the
\* header only; the versions with lazy clients then create them inside
\* the try block
KakaoEntryExpress ==
    /\ pc = "recv"
    /\ variant # "pure"
    /\ IF req.body = "malformed"
       THEN res' = BadRequestRes /\ pc' = "done"
       ELSE IF SecretRejects(variant, KAKAO_SKILL_SECRET, req)
       THEN res' = ForbiddenRes /\ pc' = "done"
       ELSE IF LazyClientsThrow(variant, envMissing)
       THEN res' = kakaoText(200, ErrorText, 0) /\ pc' = "done"
       ELSE res' = res /\ pc' = "classify"
    /\ UNCHANGED <<reqVars, userText, mode, retrVars, calls, genVars, ppc>>
    /\ UNCHANGED <<storeVars, faults, chunkVars, routeVars, uploadVars>>

\* ---- classify ----
\* userText = body?.userRequest?.utterance || ""; mode = pickAgent(userText)
Classify ==
    /\ pc = "classify"
    /\ ~PickAgentThrows(req)
    /\ userText' = Utterance(req)
    /\ mode' = pickAgent(variant, Utterance(req))
    /\ agenda' = Agenda(variant, mode')
    /\ srcIdx' = 1
    /\ acc' = << >>
    /\ pc' = "retrieve"
    /\ UNCHANGED <<reqVars, bundles, calls, genVars, res, ppc>>
    /\ UNCHANGED <<storeVars, faults, chunkVars, routeVars, uploadVars>>

\* pickAgent throws: the Express handlers' catch answers with the error
\* text, the plain handler's outer catch with 500 router-failed
ClassifyThrows ==
    /\ pc = "classify"
    /\ PickAgentThrows(req)
    /\ res' = IF variant = "pure" THEN RouterFailedRes
              ELSE kakaoText(200, ErrorText, 0)
    /\ pc' = "done"
    /\ UNCHANGED <<reqVars, userText, mode, retrVars, calls, genVars, ppc>>
    /\ UNCHANGED <<storeVars, faults, chunkVars, routeVars, uploadVars>>

\* ---- retrieve ----
\* searchDocs: const [qEmbed] = await embed([query])
SearchIssue ==
    /\ pc = "retrieve"
    /\ agenda # << >>
    /\ WantNext(variant, Head(agenda), srcIdx, acc)
    /\ LET p == Pool(variant, Head(agenda))[srcIdx] IN
         calls' = Append(calls, Call("embed", p[1], p[2], "pending", 0, NoText))
    /\ pc' = "embedding"
    /\ UNCHANGED <<reqVars, userText, mode, retrVars, genVars, res, ppc>>
    /\ UNCHANGED <<storeVars, faults, chunkVars, routeVars, uploadVars>>

\* the embedding succeeds: supabase.rpc("match_documents", ...) is issued
SearchEmbedOk ==
    /\ pc = "embedding"
    /\ LET p == Pool(variant, Head(agenda))[srcIdx] IN
         calls' = Append(SettleLast(calls, "ok", 0),
                         Call("rpc", p[1], p[2], "pending", 0, NoText))
    /\ pc' = "matching"
    /\ UNCHANGED <<reqVars, userText, mode, retrVars, genVars, res, ppc>>
    /\ UNCHANGED <<storeVars, faults, chunkVars, routeVars, uploadVars>>

\* what the caller of searchDocs(...).catch(() => []) continues with
SearchContinue(ok, n) ==
    /\ acc' = acc \o Caught(Pool(variant, Head(agenda))[srcIdx][1], ok, n)
    /\ srcIdx' = srcIdx + 1
    /\ pc' = "retrieve"
    /\ UNCHANGED <<reqVars, userText, mode, agenda, bundles, genVars, res, ppc,
                   storeVars>>

\* the embedding call throws: searchDocs rejects, the caller's catch
\* turns it into []
SearchEmbedFail ==
    /\ pc = "embedding"
    /\ faults < MaxSearchFaults
    /\ faults' = faults + 1
    /\ calls' = SettleLast(calls, "err", 0)
    /\ SearchContinue(FALSE, 0)
    /\ UNCHANGED <<chunkVars, routeVars, uploadVars>>

\* the RPC returns { error }: searchDocs throws it
SearchRpcFail ==
    /\ pc = "matching"
    /\ faults < MaxSearchFaults
    /\ faults' = faults + 1
    /\ calls' = SettleLast(calls, "err", 0)
    /\ SearchContinue(FALSE, 0)
    /\ UNCHANGED <<chunkVars, routeVars, uploadVars>>

\* the RPC returns up to match_count rows
SearchRpcOk ==
    /\ pc = "matching"
    /\ LET p == Pool(variant, Head(agenda))[srcIdx]
           n == Matching(documents, p[1], p[2]) IN
         /\ calls' = SettleLast(calls, "ok", n)
         /\ SearchContinue(TRUE, n)
    /\ UNCHANGED <<faults, chunkVars, routeVars, uploadVars>>

\* the agent makes no further call: its bundle is complete
AgentDone ==
    /\ pc = "retrieve"
    /\ agenda # << >>
    /\ ~WantNext(variant, Head(agenda), srcIdx, acc)
    /\ bundles' = Append(bundles, BundleOf(Head(agenda), acc))
    /\ agenda' = Tail(agenda)
    /\ srcIdx' = 1
    /\ acc' = << >>
    /\ pc' = IF Tail(agenda) = << >> THEN "generate" ELSE "retrieve"
    /\ UNCHANGED <<reqVars, userText, mode, calls, genVars, res, ppc>>
    /\ UNCHANGED <<storeVars, faults, chunkVars, routeVars, uploadVars>>

\* ---- generate ----
\* answerWithLLM: the chat call is issued; the plain handler first arms
\* setTimeout(() => controller.abort(), 4500)
GenIssue ==
    /\ pc = "generate"
    /\ bundles' = SelectBundles(variant, mode, bundles)
    /\ calls' = Append(calls, Call("chat", "", 0, "pending", 0, NoText))
    /\ timer' = IF variant = "pure" THEN "armed" ELSE "none"
    /\ pc' = "generating"
    /\ UNCHANGED <<reqVars, userText, mode, agenda, srcIdx, acc,
                   deadlinePassed, finalText, res, ppc>>
    /\ UNCHANGED <<storeVars, faults, chunkVars, routeVars, uploadVars>>

\* 4.5 s pass while the chat call is pending; in the plain handler the
\* timer callback runs controller.abort()
Deadline ==
    /\ pc = "generating"
    /\ ~deadlinePassed
    /\ deadlinePassed' = TRUE
    /\ timer' = IF timer = "armed" THEN "fired" ELSE timer
    /\ UNCHANGED <<reqVars, userText, mode, retrVars, calls, finalText,
                   pc, res, ppc>>
    /\ UNCHANGED <<storeVars, faults, chunkVars, routeVars, uploadVars>>

\* the chat call resolves: res.choices[0]?.message?.content?.trim() ||
\* "answer generation failed"
GenResolve ==
    /\ pc = "generating"
    /\ \E n \in GenLens :
         /\ finalText' = IF n = 0 THEN GenFailText ELSE GenText(n)
         /\ calls' = SettleLast(calls, "ok", n)
    /\ timer' = IF timer = "armed" THEN "cleared" ELSE timer
    /\ pc' = "persist"
    /\ UNCHANGED <<reqVars, userText, mode, retrVars, deadlinePassed, res, ppc>>
    /\ UNCHANGED <<storeVars, faults, chunkVars, routeVars, uploadVars>>

\* the chat call rejects, plain handler: catch returns the canned text
GenRejectPure ==
    /\ pc = "generating"
    /\ variant = "pure"
    /\ finalText' = LLMTimeoutText
    /\ calls' = SettleLast(calls, "err", 0)
    /\ timer' = IF timer = "armed" THEN "cleared" ELSE timer
    /\ pc' = "persist"
    /\ UNCHANGED <<reqVars, userText, mode, retrVars, deadlinePassed, res, ppc>>
    /\ UNCHANGED <<storeVars, faults, chunkVars, routeVars, uploadVars>>

\* the chat call rejects, Express: the handler's catch answers with the
\* error text
GenRejectExpress ==
    /\ pc = "generating"
    /\ variant # "pure"
    /\ calls' = SettleLast(calls, "err", 0)
    /\ res' = kakaoText(200, ErrorText, 0)
    /\ pc' = "done"
    /\ UNCHANGED <<reqVars, userText, mode, retrVars, genVars, ppc>>
    /\ UNCHANGED <<storeVars, faults, chunkVars, routeVars, uploadVars>>

\* ---- persist, respond ----
PersistTable(v) == IF v = "pure" THEN "documents" ELSE "qa_memory"

\* express1: saveQAMemory(...).catch(console.warn) is started (its embed
\* call is issued) and res.json(...) follows in the same turn
SaveAndRespond ==
    /\ pc = "persist"
    /\ variant = "express1"
    /\ calls' = Append(calls, Call("embed", "qa", 0, "pending", 0, NoText))
    /\ ppc' = "embed"
    /\ res' = kakaoText(200, SliceText(finalText, 2500), 2)
    /\ pc' = "done"
    /\ UNCHANGED <<reqVars, userText, mode, retrVars, genVars>>
    /\ UNCHANGED <<storeVars, faults, chunkVars, routeVars, uploadVars>>

\* express2, plain handler: try { const [qEmbed] = await embed([userText])
PersistStart ==
    /\ pc = "persist"
    /\ variant # "express1"
    /\ calls' = Append(calls, Call("embed", "qa", 0, "pending", 0, NoText))
    /\ ppc' = "embed"
    /\ pc' = "persisting"
    /\ UNCHANGED <<reqVars, userText, mode, retrVars, genVars, res>>
    /\ UNCHANGED <<storeVars, faults, chunkVars, routeVars, uploadVars>>

\* the embedding resolves: the insert is issued
PersistEmbedOk ==
    /\ ppc = "embed"
    /\ calls' = Append(SettleLast(calls, "ok", 0),
                       Call("insert", PersistTable(variant), 0, "pending", 0,
                            finalText))
    /\ ppc' = "insert"
    /\ UNCHANGED <<reqVars, userText, mode, retrVars, genVars, res, pc>>
    /\ UNCHANGED <<storeVars, faults, chunkVars, routeVars, uploadVars>>

\* the embedding rejects: caught (console.warn / ignore)
PersistEmbedFail ==
    /\ ppc = "embed"
    /\ calls' = SettleLast(calls, "err", 0)
    /\ ppc' = "failed"
    /\ UNCHANGED <<reqVars, userText, mode, retrVars, genVars, res, pc>>
    /\ UNCHANGED <<storeVars, faults, chunkVars, routeVars, uploadVars>>

\* the insert settles, with or without { error }
PersistInsertSettle ==
    /\ ppc = "insert"
    /\ \E st \in {"ok", "err"} :
         /\ calls' = SettleLast(calls, st, 0)
         /\ ppc' = IF st = "ok" THEN "stored" ELSE "failed"
         /\ documents' =
              IF st = "ok" /\ PersistTable(variant) = "documents"
              THEN [documents EXCEPT !["qa_memory"] = @ + 1]
              ELSE documents
         /\ qa_memory' =
              IF st = "ok" /\ PersistTable(variant) = "qa_memory"
              THEN qa_memory + 1
              ELSE qa_memory
    /\ UNCHANGED faults
    /\ UNCHANGED <<reqVars, userText, mode, retrVars, genVars, res, pc>>
    /\ UNCHANGED <<chunkVars, routeVars, uploadVars>>

\* try { ... } catch (e) { console.warn(...) } (plain handler: ignore):
\* the text the handler goes on with after the persistence block
PersistFailureLeaks(outcome, t) ==
    IF outcome = "failed" THEN ErrorText ELSE t
AfterPersist(outcome, t) == t

\* express2, plain handler: the response after the persistence block
Respond ==
    /\ pc = "persisting"
    /\ ppc \in {"stored", "failed"}
    /\ res' = IF variant = "pure"
              THEN kakaoText(200, AfterPersist(ppc, finalText), 2)
              ELSE kakaoText(200, SliceText(AfterPersist(ppc, finalText),
                                            2500), 2)
    /\ pc' = "done"
    /\ UNCHANGED <<reqVars, userText, mode, retrVars, calls, genVars, ppc>>
    /\ UNCHANGED <<storeVars, faults, chunkVars, routeVars, uploadVars>>

KakaoNext ==
    \/ KakaoEntryPure \/ KakaoEntryExpress
    \/ Classify \/ ClassifyThrows
    \/ SearchIssue \/ SearchEmbedOk \/ SearchEmbedFail
    \/ SearchRpcFail \/ SearchRpcOk
    \/ AgentDone
    \/ GenIssue \/ Deadline \/ GenResolve \/ GenRejectPure \/ GenRejectExpress
    \/ SaveAndRespond \/ PersistStart
    \/ PersistEmbedOk \/ PersistEmbedFail \/ PersistInsertSettle
    \/ Respond

KakaoFresh ==
    /\ userText = << >>
    /\ mode = "none"
    /\ agenda = << >>
    /\ srcIdx = 1
    /\ acc = << >>
    /\ bundles = << >>
    /\ calls = << >>
    /\ timer = "none"
    /\ deadlinePassed = FALSE
    /\ finalText = NoText
    /\ res = NoRes
    /\ ppc = "none"
    /\ qa_memory = 0
    /\ faults = 0

\* a documents table with the given numbers of rows for the three company
\* sources and u rows for every legal source
StoreOf(c1, c2, c3, u) ==
    [s \in DocSources |->
       CASE s = CompanyRules  -> c1
         [] s = Collective    -> c2
         [] s = WageAgreement -> c3
         [] s \in LawSources  -> u
         [] OTHER             -> 0]

CompanyCounts == {0, 2, 5}
LawCounts == {0, 1, 2, 3, 5}
BaseStore == StoreOf(2, 2, 2, 2)
CompanyStores ==
    { StoreOf(c1, c2, c3, 2) : c1 \in CompanyCounts, c2 \in CompanyCounts,
                               c3 \in CompanyCounts }
LawStores == { StoreOf(2, 0, 5, u) : u \in LawCounts }

PlainPost(u) ==
    [method |-> "POST", fast |-> FALSE, header |-> "none",
     qsecret |-> "none", body |-> "json", utterance |-> u]

KakaoIdle ==
    /\ variant = "pure"
    /\ KAKAO_SKILL_SECRET = "none"
    /\ envMissing = "none"
    /\ req = PlainPost(<< >>)
    /\ documents = BaseStore
    /\ KakaoFresh
    /\ pc = "off"

(***************************************************************************)
(* POST /upload                                                            *)
(***************************************************************************)
kakaoRest == <<variant, KAKAO_SKILL_SECRET, envMissing, req, pc, userText,
               mode, agenda, srcIdx, acc, bundles, calls, timer,
               deadlinePassed, finalText, res, ppc, qa_memory, faults>>

\* the file part of the form: none, or a PDF of some pages whose text
\* items hold body characters in all
NoFile == [pages |-> 0, body |-> 0]
PageCounts == {1, 2}
UploadBodies == {0, 1, 1300}
UploadFiles == {NoFile} \cup [pages : PageCounts, body : UploadBodies]

\* the form fields pw and source ("none" when the field is absent)
Uploads ==
    [ pw : SecretValues, source : {"none", CompanyRules}, file : UploadFiles ]

\* const { pw, source = "gi-ta", ... } = req.body
SourceOf(u) == IF u.source = "none" THEN DefaultSource ELSE u.source

NoUploadRes == [status |-> 0, body |-> "none", message |-> "none"]
\* res.status(403).send("password error")
PasswordErrorRes ==
    [status |-> 403, body |-> "bimilbeonho oryu", message |-> "none"]
\* res.status(400).send("there is no file")
NoFileRes ==
    [status |-> 400, body |-> "paili eopseumnida.", message |-> "none"]
\* res.send("upload/indexing done!")
UploadDoneRes ==
    [status |-> 200, body |-> "eomnodeu/indeksing wallyo!", message |-> "none"]
\* res.status(500).send("upload failed: " + e.message)
UploadFailedRes(msg) ==
    [status |-> 500, body |-> "eomnodeu silpae: ", message |-> msg]

\* e.message of the error a failed stage throws
MessageOf(op) == <<"error of", op>>
\* new Error("Missing OPENAI_API_KEY") / new Error("Missing SUPABASE_URL or
\* SUPABASE_SERVICE_ROLE_KEY")
MissingMessage(missing) == <<"Missing", missing>>

\* catch (e) { console.error(e); res.status(500).send(... + e.message) }
UploadCatchSwallows(msg) == UploadDoneRes
UploadCatch(msg) == UploadFailedRes(msg)

\* Express: if (pw !== ADMIN_PASSWORD) -> 403;
\* plain handler: if (ADMIN_PASSWORD && pw !== ADMIN_PASSWORD) -> 403
PasswordRejects(v, admin, pw) ==
    IF v = "pure" THEN admin # "none" /\ pw # admin
    ELSE pw # admin

\* pdfBufferToText: the items of each page joined, plus "\n" per page; the
\* plain handler returns text.trim().  (pdf-parse in the first Express
\* version separates pages by newlines as well.)
ExtractedLen(v, f) == IF v = "pure" THEN f.body ELSE f.body + f.pages

\* chunkText(fullText) is called with the defaults of the signature
DefaultChunking(v) == IF v = "pure" THEN <<1100, 150>> ELSE <<1200, 200>>

\* r.data.map(d => d.embedding): the vector of an input
EmbeddingOf(content) == [of |-> content]

UCall(op, st, n) == [op |-> op, st |-> st, n |-> n]

\* credential check, file check, lazy clients, then the extraction starts
UploadEntry ==
    /\ upc = "recv"
    /\ IF PasswordRejects(variant, ADMIN_PASSWORD, upload.pw)
       THEN ures' = PasswordErrorRes /\ upc' = "done" /\ ucalls' = ucalls
       ELSE IF upload.file = NoFile
       THEN ures' = NoFileRes /\ upc' = "done" /\ ucalls' = ucalls
       ELSE IF LazyClientsThrow(variant, envMissing)
       THEN /\ ures' = UploadCatch(MissingMessage(envMissing))
            /\ upc' = "done" /\ ucalls' = ucalls
       ELSE /\ ucalls' = << UCall("extract", "pending", 0) >>
            /\ upc' = "extract" /\ ures' = ures
    /\ UNCHANGED <<ADMIN_PASSWORD, upload, embeddings, rows, documents>>
    /\ UNCHANGED <<chunkVars, routeVars, kakaoRest>>

\* the extraction resolves: const chunks = chunkText(fullText) is entered
UploadExtractOk ==
    /\ upc = "extract"
    /\ LET n == ExtractedLen(variant, upload.file) IN
         /\ ucalls' = SettleLast(ucalls, "ok", n)
         /\ text' = TextOfLen(n)
    /\ chunkSize' = DefaultChunking(variant)[1]
    /\ overlap' = DefaultChunking(variant)[2]
    /\ i' = 0
    /\ chunks' = << >>
    /\ cpc' = "idle"
    /\ upc' = "chunk"
    /\ UNCHANGED <<ADMIN_PASSWORD, upload, embeddings, rows, ures, documents>>
    /\ UNCHANGED <<routeVars, kakaoRest>>

\* a stage throws (or the insert returns { error }, which is thrown)
UploadStageFails(op) ==
    /\ ucalls' = SettleLast(ucalls, "err", 0)
    /\ ures' = UploadCatch(MessageOf(op))
    /\ upc' = "done"
    /\ UNCHANGED <<ADMIN_PASSWORD, upload, embeddings, rows, documents>>
    /\ UNCHANGED <<chunkVars, routeVars, kakaoRest>>

UploadExtractFail ==
    /\ upc = "extract"
    /\ UploadStageFails("extract")

\* chunkText has returned: const embeddings = await embed(chunks)
UploadEmbedIssue ==
    /\ upc = "chunk"
    /\ cpc = "done"
    /\ ucalls' = Append(ucalls, UCall("embed", "pending", Len(chunks)))
    /\ upc' = "embed"
    /\ UNCHANGED <<ADMIN_PASSWORD, upload, embeddings, rows, ures, documents>>
    /\ UNCHANGED <<chunkVars, routeVars, kakaoRest>>

\* the embeddings arrive, the rows are built and the bulk insert is issued
UploadEmbedOk ==
    /\ upc = "embed"
    /\ embeddings' = [n \in 1..Len(chunks) |-> EmbeddingOf(chunks[n])]
    /\ rows' = [n \in 1..Len(chunks) |->
                  [source |-> SourceOf(upload), content |-> chunks[n],
                   embedding |-> embeddings'[n]]]
    /\ ucalls' = Append(SettleLast(ucalls, "ok", Len(chunks)),
                        UCall("insert", "pending", Len(rows')))
    /\ upc' = "insert"
    /\ UNCHANGED <<ADMIN_PASSWORD, upload, ures, documents>>
    /\ UNCHANGED <<chunkVars, routeVars, kakaoRest>>

UploadEmbedFail ==
    /\ upc = "embed"
    /\ UploadStageFails("embed")

\* the bulk insert succeeds: every row is stored
UploadInsertOk ==
    /\ upc = "insert"
    /\ ucalls' = SettleLast(ucalls, "ok", Len(rows))
    /\ documents' = [documents EXCEPT ![SourceOf(upload)] = @ + Len(rows)]
    /\ ures' = UploadDoneRes
    /\ upc' = "done"
    /\ UNCHANGED <<ADMIN_PASSWORD, upload, embeddings, rows>>
    /\ UNCHANGED <<chunkVars, routeVars, kakaoRest>>

\* the bulk insert returns { error }: no row is stored
UploadInsertFail ==
    /\ upc = "insert"
    /\ UploadStageFails("insert")

UploadNext ==
    \/ UploadEntry
    \/ UploadExtractOk \/ UploadExtractFail
    \/ ChunkEnter \/ ChunkTest \/ ChunkStep \/ ChunkReturn
    \/ UploadEmbedIssue \/ UploadEmbedOk \/ UploadEmbedFail
    \/ UploadInsertOk \/ UploadInsertFail

UploadFresh ==
    /\ embeddings = << >>
    /\ rows = << >>
    /\ ucalls = << >>
    /\ ures = NoUploadRes

UploadIdle ==
    /\ ADMIN_PASSWORD = "none"
    /\ upload = [pw |-> "none", source |-> "none", file |-> NoFile]
    /\ upc = "off"
    /\ UploadFresh

(***************************************************************************)
(* Specifications                                                          *)
(***************************************************************************)
ChunkIdle ==
    /\ text = << >> /\ chunkSize = 1 /\ overlap = 0
    /\ i = 0 /\ chunks = << >> /\ cpc = "off"
RouteIdle ==
    /\ rText = << >> /\ rVariant = "pure" /\ rMode = "none" /\ rpc = "off"

\* chunkText run on every bounded input
InitChunk ==
    /\ \E c \in SmallCases \cup DefaultCases : ChunkInitCase(c)
    /\ RouteIdle
    /\ KakaoIdle
    /\ UploadIdle
NextChunk == ChunkNext
SpecChunk == InitChunk /\ [][NextChunk]_vars
\* the loop is a plain sequential loop: an enabled step is taken
FairSpecChunk == SpecChunk /\ WF_vars(NextChunk)

\* pickAgent called on every bounded input
InitRoute ==
    /\ rText \in RouteTexts
    /\ rVariant \in Variants
    /\ rMode = "none"
    /\ rpc = "idle"
    /\ ChunkIdle
    /\ KakaoIdle
    /\ UploadIdle
NextRoute == RouteNext
SpecRoute == InitRoute /\ [][NextRoute]_vars

\* one request to /kakao, served by any version of the handler
\* every kind of request against one store; a plain POST of every
\* utterance against that store; a company question against every
\* filling of the company sources; a law question against every filling
\* of the legal sources
Init ==
    /\ variant \in Variants
    /\ \/ /\ KAKAO_SKILL_SECRET \in {"none", "good"}
          /\ envMissing = "none"
          /\ req \in { r \in Requests(variant) : r.utterance = << >> }
          /\ documents = BaseStore
       \/ /\ KAKAO_SKILL_SECRET = "none"
          /\ envMissing \in EnvValues
          /\ envMissing # "none" => variant = "express2"
          /\ req \in { PlainPost(u) : u \in KakaoTexts }
          /\ documents = BaseStore
       \/ /\ KAKAO_SKILL_SECRET = "none"
          /\ envMissing = "none"
          /\ req = PlainPost(<<"yeon", "cha">>)
          /\ documents \in CompanyStores
       \/ /\ KAKAO_SKILL_SECRET = "none"
          /\ envMissing = "none"
          /\ req = PlainPost(<<"hae", "go">>)
          /\ documents \in LawStores
    /\ pc = "recv"
    /\ KakaoFresh
    /\ ChunkIdle
    /\ RouteIdle
    /\ UploadIdle
Next == KakaoNext
Spec == Init /\ [][Next]_vars

\* the steps of the handler itself and the settling of the search and chat
\* calls; the embedding and insert calls of the persistence step may stay
\* pending for ever
HandlerSteps ==
    \/ KakaoEntryPure \/ KakaoEntryExpress
    \/ Classify \/ ClassifyThrows
    \/ SearchIssue \/ SearchEmbedOk \/ SearchEmbedFail
    \/ SearchRpcFail \/ SearchRpcOk
    \/ AgentDone
    \/ GenIssue \/ GenResolve \/ GenRejectPure \/ GenRejectExpress
    \/ SaveAndRespond \/ PersistStart
    \/ Respond
FairSpec == Spec /\ WF_vars(HandlerSteps)

\* one request to /upload, served by any version of the handler
InitUpload ==
    /\ variant \in Variants
    /\ envMissing \in EnvValues
    /\ envMissing # "none" => variant = "express2"
    /\ ADMIN_PASSWORD \in {"none", "good"}
    /\ upload \in Uploads
    /\ upc = "recv"
    /\ UploadFresh
    /\ KAKAO_SKILL_SECRET = "none"
    /\ req = PlainPost(<< >>)
    /\ documents = BaseStore
    /\ KakaoFresh
    /\ pc = "off"
    /\ ChunkIdle
    /\ RouteIdle
NextUpload == UploadNext
SpecUpload == InitUpload /\ [][NextUpload]_vars
\* the handler is sequential code and the calls it awaits settle
FairSpecUpload == SpecUpload /\ WF_vars(NextUpload)

(***************************************************************************)
(* Chunker claims                                                          *)
(***************************************************************************)
ValidParams == chunkSize > 0 /\ 0 <= overlap /\ overlap < chunkSize

\* C1: chunkText terminates (reaches its return) for every text and every
\* chunkSize > 0 with 0 <= overlap < chunkSize.
C1_Terminates == (cpc = "idle" /\ ValidParams) ~> (cpc = "done")

\* 0-based start index and exclusive end index of a recorded window
WinStart(c) == c[1] - 1
WinEnd(c) == c[Len(c)]
MaxEnd == IF chunks = << >> THEN 0
          ELSE CHOOSE e \in { WinEnd(chunks[n]) : n \in 1..Len(chunks) } :
                 \A n \in 1..Len(chunks) : WinEnd(chunks[n]) <= e

\* C2: at every point of chunkText the windows emitted so far leave no gap:
\* the first starts at 0, each later one starts at or before the end of the
\* one before it, none is longer than chunkSize, and every index below the
\* largest end reached lies in some window.
C2_NoGap ==
    (cpc \in {"loop", "body", "done"} /\ ValidParams /\ chunks # << >>) =>
      /\ \A n \in 1..Len(chunks) : chunks[n] # << >>
      /\ WinStart(chunks[1]) = 0
      /\ \A n \in 2..Len(chunks) : WinStart(chunks[n]) <= WinEnd(chunks[n-1])
      /\ \A n \in 1..Len(chunks) : Len(chunks[n]) <= chunkSize
      /\ \A idx \in 0..(MaxEnd - 1) :
           \E n \in 1..Len(chunks) :
             WinStart(chunks[n]) <= idx /\ idx < WinEnd(chunks[n])

C2_Witness ==
    /\ cpc = "loop" /\ ValidParams /\ overlap > 0
    /\ Len(chunks) >= 3
    /\ Len(text) > chunkSize
    /\ MaxEnd = Len(text)

(***************************************************************************)
(* Router claims                                                           *)
(***************************************************************************)
\* the set of contiguous substrings of t
Substrings(t) ==
    { SubSeq(t, a, b) : a \in 1..(Len(t) + 1), b \in 0..Len(t) }

HasCompany(v, t) == Range(companyKeywords(v)) \cap Substrings(ToLowerCase(t)) # {}
HasLaw(v, t) == Range(lawKeywords(v)) \cap Substrings(ToLowerCase(t)) # {}

\* C3: pickAgent returns company whenever the lower-cased text contains a
\* company keyword (even with a law keyword present), law when it contains
\* a law keyword and no company keyword, mix otherwise (also for the empty
\* string).
C3_PickAgent ==
    rpc = "done" =>
      /\ HasCompany(rVariant, rText) => rMode = "company"
      /\ (HasLaw(rVariant, rText) /\ ~HasCompany(rVariant, rText)) => rMode = "law"
      /\ (~HasLaw(rVariant, rText) /\ ~HasCompany(rVariant, rText)) => rMode = "mix"
      /\ rText = << >> => rMode = "mix"

C3_Witness ==
    /\ rpc = "done"
    /\ HasCompany(rVariant, rText) /\ HasLaw(rVariant, rText)
    /\ rMode = "company"

(***************************************************************************)
(* Retrieval claims                                                        *)
(***************************************************************************)
CompanySources == {CompanyRules, Collective, WageAgreement}

\* the searchDocs calls made so far for sources of S (each starts with
\* its embedding call), and the RPCs among them that returned rows
SearchesOf(S) ==
    SelectSeq(calls, LAMBDA c : c.op = "embed" /\ c.src \in S)
AnsweredOf(S) ==
    SelectSeq(calls, LAMBDA c : c.op = "rpc" /\ c.src \in S /\ c.st = "ok")
FailedOf(S) ==
    SelectSeq(calls, LAMBDA c : c.op \in {"embed", "rpc"} /\ c.src \in S
                                 /\ c.st = "err")
SourcesOf(log) == [n \in 1..Len(log) |-> log[n].src]

\* rows a source has returned so far (0 if it failed or was not asked)
Returned(src) ==
    LET a == AnsweredOf({src}) IN IF a = << >> THEN 0 ELSE a[1].n

RECURSIVE RowsOf(_)
RowsOf(log) ==
    IF log = << >> THEN << >>
    ELSE Hits(Head(log).src, Head(log).n) \o RowsOf(Tail(log))

First(n, seq) == SubSeq(seq, 1, Min(n, Len(seq)))
IsPrefix(a, b) == Len(a) <= Len(b) /\ SubSeq(b, 1, Len(a)) = a

CompanyBundles ==
    { b \in Range(bundles) : b.name = BundleName("company") }
LawBundles ==
    { b \in Range(bundles) : b.name = BundleName("law") }

\* C4: in company mode the primary source is queried first, the collective
\* agreement only if the primary returned fewer than 3 rows, the wage
\* agreement only if fewer than 3 rows have accumulated, and the bundle
\* lists the results in the order the sources were queried.
C4_CompanyWidening ==
    mode = "company" =>
      LET q == SourcesOf(SearchesOf(CompanySources)) IN
        /\ q # << >> => q[1] = CompanyRules
        /\ Collective \in Range(q) => Returned(CompanyRules) < 3
        /\ WageAgreement \in Range(q) =>
             Returned(CompanyRules) + Returned(Collective) < 3
        /\ \A b \in CompanyBundles :
             b.contexts = RowsOf(AnsweredOf(CompanySources))

\* law-mode retrieval: agentLaw, or the law branch of the plain handler
LawRetrieval == variant # "pure" \/ mode = "law"
lawPool(v) == IF v = "pure" THEN lawPoolPure ELSE lawPoolExpress

\* rows accumulated before the n-th law source was queried
LawRowsBefore(n) ==
    Len(RowsOf(AnsweredOf({ lawPool(variant)[j] : j \in 1..(n - 1) })))

\* C5: in law mode the legal sources are queried one at a time in list
\* order, none is queried once more than 6 rows have accumulated, and the
\* law bundle holds at most 6 contexts, the first 6 of the concatenation
\* in query order.
C5_LawCap ==
    LawRetrieval =>
      LET q == SourcesOf(SearchesOf(LawSources)) IN
        /\ IsPrefix(q, lawPool(variant))
        /\ \A n \in 1..Len(calls) :
             (calls[n].op \in {"embed", "rpc"} /\ calls[n].st = "pending")
               => n = Len(calls)
        /\ q # << >> => LawRowsBefore(Len(q)) <= 6
        /\ \A b \in LawBundles :
             /\ Len(b.contexts) <= 6
             /\ b.contexts = First(6, RowsOf(AnsweredOf(LawSources)))

C5_Witness ==
    /\ LawRetrieval
    /\ Len(RowsOf(AnsweredOf(LawSources))) > 6
    /\ Len(SearchesOf(LawSources)) < Len(lawPool(variant))
    /\ \E b \in LawBundles : Len(b.contexts) = 6

\* position of a source in the pool of the agent that queries it
PoolIndex(pool, src) == CHOOSE n \in 1..Len(pool) : pool[n][1] = src

\* the agents of the request, and whether their retrieval is over
RetrievalOver == pc \in {"generate", "generating", "persist", "persisting", "done"}

\* C6: a failed search contributes an empty result for its source only:
\* the next source of the pool is still queried, the rows of the other
\* sources are kept, the failure is not propagated to the response, and
\* when the primary company source fails the company bundle holds exactly
\* the rows of the secondary sources.
C6_SearchFaultTolerant ==
    /\ \A b \in CompanyBundles :
         b.contexts = RowsOf(AnsweredOf(CompanySources))
    /\ \A b \in LawBundles :
         b.contexts = First(6, RowsOf(AnsweredOf(LawSources \cup {NullFilter})))
    /\ RetrievalOver =>
         \A agent \in Range(Agenda(variant, mode)) :
           LET pool == Pool(variant, agent)
               S == { pool[n][1] : n \in 1..Len(pool) }
               f == FailedOf(S)
               q == SourcesOf(SearchesOf(S)) IN
             \A n \in 1..Len(f) :
               PoolIndex(pool, f[n].src) < Len(pool) =>
                 pool[PoolIndex(pool, f[n].src) + 1][1] \in Range(q)
    /\ (faults > 0 /\ res # NoRes /\ res.text = ErrorText) =>
         \E n \in 1..Len(calls) : calls[n].op = "chat" /\ calls[n].st = "err"
    /\ (faults > 0 /\ RetrievalOver /\ pc # "done") => res = NoRes
    /\ (FailedOf({CompanyRules}) # << >> /\ mode = "company") =>
         \A b \in CompanyBundles :
           b.contexts = Hits(Collective, Returned(Collective))
                          \o Hits(WageAgreement, Returned(WageAgreement))

C6_Witness ==
    /\ mode = "company"
    /\ FailedOf({CompanyRules}) # << >>
    /\ \E b \in CompanyBundles : Len(b.contexts) >= 2
    /\ pc = "done"
    /\ res.text.id = "generated"

(***************************************************************************)
(* Generation claims                                                       *)
(***************************************************************************)
ChatCalls == SelectSeq(calls, LAMBDA c : c.op = "chat")
Inserts == SelectSeq(calls, LAMBDA c : c.op = "insert")

\* the chat call resolved after the 4.5 s had gone by
LateResult ==
    deadlinePassed /\ ChatCalls # << >> /\ ChatCalls[1].st = "ok"

\* C7: if the chat call does not resolve within 4.5 s, answerWithLLM
\* returns the canned fallback text and the webhook response carries it.
C7_TimeoutFallback ==
    deadlinePassed =>
      /\ finalText \in {NoText, LLMTimeoutText}
      /\ pc = "done" => res.text = LLMTimeoutText

\* C8: a chat result that arrives after the deadline has fired is
\* discarded: it is neither the reply text nor the persisted answer.
C8_LateResultDiscarded ==
    LateResult =>
      /\ res.text.id # "generated"
      /\ \A n \in 1..Len(Inserts) : Inserts[n].row.id # "generated"

(***************************************************************************)
(* Handler claims                                                          *)
(***************************************************************************)
\* the secret a request supplies: the header, else the query parameter
Supplied(r) == IF r.header # "none" THEN r.header ELSE r.qsecret

\* C9: a request with the fast parameter gets the canned response whatever
\* the secret; otherwise, with a secret configured, it is rejected as
\* forbidden exactly when the supplied secret is missing or different; with
\* no secret configured nothing is rejected as forbidden.
C9_SecretCheck ==
    pc # "recv" =>
      /\ req.fast => (pc = "done" /\ res = kakaoText(200, PongText, 0))
      /\ (~req.fast /\ KAKAO_SKILL_SECRET # "none") =>
           (res = ForbiddenRes <=> Supplied(req) # KAKAO_SKILL_SECRET)
      /\ KAKAO_SKILL_SECRET = "none" => res # ForbiddenRes

IsSearchCall(c) == c.op \in {"embed", "rpc"} /\ c.src # "qa"
IsPersistCall(c) == (c.op = "embed" /\ c.src = "qa") \/ c.op = "insert"

\* C10: the steps of one POST happen in the order verify, classify,
\* retrieve, generate, persist, respond: no call to an external service
\* before the secret check has passed and none for a forbidden request,
\* every search call settled before the chat call is issued, persistence
\* attempted only after generation produced the final text, and the
\* answer sent only after persistence was attempted.
C10_StepOrder ==
    /\ pc = "recv" => calls = << >>
    /\ res = ForbiddenRes => calls = << >>
    /\ calls # << >> =>
         /\ \/ KAKAO_SKILL_SECRET = "none"
            \/ req.header = KAKAO_SKILL_SECRET
            \/ req.qsecret = KAKAO_SKILL_SECRET
         /\ mode # "none"
    /\ \A b \in 1..Len(calls) :
         calls[b].op = "chat" =>
           \A a \in 1..Len(calls) :
             IsSearchCall(calls[a]) => (a < b /\ calls[a].st # "pending")
    /\ \A b \in 1..Len(calls) :
         IsPersistCall(calls[b]) =>
           \A a \in 1..Len(calls) :
             calls[a].op = "chat" =>
               (a < b /\ calls[a].st # "pending" /\ finalText # NoText)
    /\ \A b \in 1..Len(calls) :
         IsPersistCall(calls[b]) => ChatCalls # << >>
    /\ (res.kind = "kakao" /\ res.quickReplies = 2) =>
         \E b \in 1..Len(calls) : IsPersistCall(calls[b])

C10_Witness ==
    /\ pc = "done"
    /\ KAKAO_SKILL_SECRET = "good"
    /\ res.kind = "kakao" /\ res.quickReplies = 2
    /\ Inserts # << >> /\ Inserts[1].st = "ok"
    /\ Len(SearchesOf(DocSources)) >= 2

(***************************************************************************)
(* Error handling and persistence claims                                   *)
(***************************************************************************)
\* the request is a POST that the handler's secret check lets through
PassesSecret ==
    /\ req.method = "POST"
    /\ ~FastBypass(variant, req)
    /\ ~SecretRejects(variant, KAKAO_SKILL_SECRET, req)

\* C11: every POST that passes the secret check is answered with HTTP 200
\* and a chat-protocol body, whatever step failed on the way (body that
\* does not parse or has the wrong shape, missing configuration, failed
\* embedding, search, generation or persistence).
C11_AlwaysProtocol ==
    (PassesSecret /\ res # NoRes) => (res.status = 200 /\ res.kind = "kakao")

\* the reply of a version to a final text
ReplyOf(v, t) == IF v = "pure" THEN t ELSE SliceText(t, 2500)

\* C12: the response to an answered request is the one the final text
\* determines, whether the persistence step is pending, has stored the
\* row or has failed at its embedding or at its insert.
C12_PersistFailureInvisible ==
    /\ (res.kind = "kakao" /\ res.quickReplies = 2) =>
         res = kakaoText(200, ReplyOf(variant, finalText), 2)
    /\ (pc = "done" /\ ppc # "none") =>
         res = kakaoText(200, ReplyOf(variant, finalText), 2)

C12_Witness ==
    /\ pc = "done"
    /\ ppc = "failed"
    /\ variant = "express2"
    /\ Inserts # << >> /\ Inserts[1].st = "err"
    /\ res = kakaoText(200, GenText(40), 2)

\* C13: once generation has produced the final text the response is
\* eventually sent, even if the persistence calls never settle.
C13_ResponseNotBlocked == (finalText # NoText) ~> (res # NoRes)

\* C14: the reply text of every webhook response has at most 2500
\* characters.
C14_ReplyCap == res.kind = "kakao" => res.text.len <= 2500

\* C18: a webhook request never writes to the documents table: it issues
\* no insert on it and the table holds no row of source "qa_memory".
C18_DocumentsUploadOnly ==
    /\ \A n \in 1..Len(calls) :
         calls[n].op = "insert" => calls[n].src # "documents"
    /\ documents["qa_memory"] = 0

(***************************************************************************)
(* Upload claims                                                           *)
(***************************************************************************)
UCallsOf(op) == SelectSeq(ucalls, LAMBDA c : c.op = op)
SomeStageFailed == \E n \in 1..Len(ucalls) : ucalls[n].st = "err"
CorrectPassword == ADMIN_PASSWORD # "none" /\ upload.pw = ADMIN_PASSWORD
NonEmptyDocument == upload.file # NoFile /\ upload.file.body > 0

\* the success response after one embedding call and one insert whose
\* n-th row holds the n-th chunk and its embedding
IndexedOnce ==
    /\ upc = "done"
    /\ ures = UploadDoneRes
    /\ Len(UCallsOf("embed")) = 1
    /\ Len(UCallsOf("insert")) = 1
    /\ Len(rows) = Len(chunks)
    /\ \A n \in 1..Len(rows) :
         /\ rows[n].content = chunks[n]
         /\ rows[n].embedding = EmbeddingOf(chunks[n])

\* C15: an upload with the correct admin password and a non-empty
\* document eventually gets the success response, after exactly one
\* batched embedding call and one bulk insert of one row per chunk with
\* the embedding of that chunk, unless one of its calls fails.
C15_UploadIndexes ==
    (upc = "recv" /\ CorrectPassword /\ NonEmptyDocument
       /\ envMissing = "none")
      ~> (IndexedOnce \/ SomeStageFailed)

\* C16: an upload whose pw field is absent or differs from the configured
\* admin password (also when none is configured) gets the password-error
\* response, and no extraction, embedding or insert is made for it.
C16_PasswordRequired ==
    (upc \notin {"off", "recv"}
       /\ (upload.pw = "none" \/ upload.pw # ADMIN_PASSWORD))
      => (ures = PasswordErrorRes /\ ucalls = << >>)

PasswordAccepted == ~PasswordRejects(variant, ADMIN_PASSWORD, upload.pw)

\* C17: when a stage of an upload fails (no file, missing configuration,
\* extraction, embedding, insert error) the response is the failure
\* response with that error's message and the documents table is as it
\* was; the table changes only by a successful insert, which adds every
\* row of the request.
C17_FailureLeavesStore ==
    /\ (upc = "done" /\ PasswordAccepted /\ upload.file = NoFile) =>
         (ures = NoFileRes /\ documents = BaseStore)
    /\ (upc = "done" /\ PasswordAccepted /\ upload.file # NoFile
          /\ LazyClientsThrow(variant, envMissing)) =>
         (ures = UploadFailedRes(MissingMessage(envMissing))
            /\ documents = BaseStore)
    /\ \A n \in 1..Len(ucalls) :
         ucalls[n].st = "err" =>
           /\ upc = "done"
           /\ ures = UploadFailedRes(MessageOf(ucalls[n].op))
           /\ documents = BaseStore
    /\ (upc \notin {"off", "done"}) => documents = BaseStore
    /\ (upc # "off" /\ documents # BaseStore) =>
         /\ ures = UploadDoneRes
         /\ documents =
              [BaseStore EXCEPT ![SourceOf(upload)] = @ + Len(chunks)]

C17_Witness ==
    /\ upc = "done"
    /\ Len(UCallsOf("insert")) = 1
    /\ UCallsOf("insert")[1].st = "err"
    /\ ures = UploadFailedRes(MessageOf("insert"))
    /\ documents = BaseStore

====
